---- MODULE Spec2Model ----
(***************************************************************************)
(* One duplex session of src/index.js (handleAudioStream and               *)
(* handleOpenAIMessage): the Pending-Output Queue `buffer`, the pacer      *)
(* timer `interval`, the remote WebSocket `openaiWebSocket`, the client    *)
(* request `req` and response `res`, and the Node process the handlers run *)
(* in.  Every handler runs to completion on the single event loop, so      *)
(* each handler is one action.  Further specifications cover two           *)
(* concurrent sessions on the module-level resamplers, a session of the    *)
(* earlier variant src/unnamed/part_000, and its fixed-ratio converters.   *)
(***************************************************************************)
EXTENDS Integers, Sequences, FiniteSets

VARIABLES
    proc,          \* the Node process: "running" or "crashed"
    resamplerDown, \* module-level resamplerDown: "null" or "ready"
    resamplerUp,   \* module-level resamplerUp: "null" or "ready"
    buffer,        \* let buffer = []: the Pending-Output Queue
    interval,      \* the setInterval timer: "active" or "cleared"
    readyState,    \* openaiWebSocket.readyState
    wsErrored,     \* the WebSocket has emitted 'error'
    reqEvents,     \* the terminal events req has emitted, of {"end", "error"}
    res,           \* the response: headersSent, ended, statusCode
    sent,          \* messages sent on openaiWebSocket, in order
    client,        \* history: the client chunks that arrived and were forwarded
    downs,         \* history: byte length of every downsampled buffer, in order
    enqueued,      \* history: every frame pushed on buffer, in order
    written,       \* history: every chunk passed to res.write by the pacer
    lateWrites,    \* history: res.write calls made after the response had ended
    cleared,       \* history: the frames a speech_started event discarded
    calls,         \* history: invocations and effects of the teardown primitives
    events,        \* history: remote events and close triggers handled
    last,          \* the handler that ran last
    peers,         \* two concurrent sessions: connection, conversions made
    part000,       \* part_000's session: bufferedChunks, isWsConnected
    pcm            \* part_000's converters: chunks a and b, the call, its output

vars == <<proc, resamplerDown, resamplerUp, buffer, interval, readyState,
          wsErrored, reqEvents, res, sent, client, downs, enqueued, written,
          lateWrites, cleared, calls, events, last, peers, part000, pcm>>

\* The state only the further specifications change.
further == <<peers, part000, pcm>>

----------------------------------------------------------------------------
(* Program constants *)

INPUT_RATE == 24000
OUTPUT_RATE == 8000
CHUNK_SIZE == 320

(* Bounds of the model *)

MaxAudio == 2      \* response.audio.delta events per session
MaxSpeech == 1     \* input_audio_buffer.speech_started events per session
MaxErrors == 2     \* remote 'error' events per session

MaxChunks == 2     \* client chunks per session

\* Concurrent requests to /speech-to-speech-stream: one session each.
Sessions == {1, 2}

\* Byte lengths of the base64-decoded delta of a response.audio.delta event:
\* empty, odd (480 samples and a stray byte), and 480 and 1500 samples at
\* 24 kHz, which downsample to 320 and 1000 bytes at 8 kHz.
DecodedLengths == {0, 961, 960, 3000}

\* Byte lengths of a client chunk: 160 samples at 8 kHz, and 80 samples and a
\* stray byte.
ChunkLengths == {320, 161}

Min(a, b) == IF a < b THEN a ELSE b

Range(s) == {s[i] : i \in DOMAIN s}

----------------------------------------------------------------------------
(* Audio utility functions, by the length of what they return *)

\* bufferToFloat32: new Float32Array(buffer.length / 2) has the integer part
\* of buffer.length / 2 as its length (ToIndex), one float per whole 16-bit
\* sample; the stray byte of an odd-length buffer is left out.
bufferToFloat32(len) == len \div 2

\* resamplerDown.simple(floatInput): 24 kHz to 8 kHz, one output sample per
\* INPUT_RATE / OUTPUT_RATE input samples.
resampleDown(n) == (n * OUTPUT_RATE) \div INPUT_RATE

\* resamplerUp.simple(floatInput): 8 kHz to 24 kHz.
resampleUp(n) == (n * INPUT_RATE) \div OUTPUT_RATE

\* float32ToBuffer: Buffer.alloc(floatArray.length * 2).
float32ToBuffer(n) == n * 2

\* downsampled.slice(i, j) of the k-th downsampled buffer, of len bytes: a view
\* of its bytes i .. j-1, with j clamped to the buffer's length.
slice(k, len, i, j) == [ev |-> k, from |-> Min(i, len), to |-> Min(j, len)]

\* The loop with slice(i, i + CHUNK_SIZE - 1): every chunk one byte short.
RECURSIVE SplitFromOffByOne(_, _, _)
SplitFromOffByOne(k, len, i) ==
    IF i < len
    THEN <<slice(k, len, i, i + CHUNK_SIZE - 1)>>
             \o SplitFromOffByOne(k, len, i + CHUNK_SIZE)
    ELSE <<>>

\* for (let i = 0; i < downsampled.length; i += CHUNK_SIZE)
\*   buffer.push(downsampled.slice(i, i + CHUNK_SIZE));
RECURSIVE SplitFrom(_, _, _)
SplitFrom(k, len, i) ==
    IF i < len
    THEN <<slice(k, len, i, i + CHUNK_SIZE)>> \o SplitFrom(k, len, i + CHUNK_SIZE)
    ELSE <<>>

----------------------------------------------------------------------------
(* Primitives of the runtime the handlers call *)

\* clearInterval(interval): cancels the timer; a no-op on a cancelled one.
clearInterval(t) == "cleared"

\* openaiWebSocket.close(): starts the closing handshake (or aborts the
\* opening one); returns at once on a closing or closed socket; never throws.
wsClose(rs) ==
    [readyState |-> IF rs \in {"CONNECTING", "OPEN"} THEN "CLOSING" ELSE rs,
     threw |-> FALSE]

\* res.end(): ends the response, flushing the headers; a no-op on an ended one.
resEnd(r) == [r EXCEPT !.headersSent = TRUE, !.ended = TRUE]

\* buffer.pop() in place of buffer.shift(): the newest chunk.
popChunk(buf) == buf[Len(buf)]

\* A drain of two chunks a tick.
shiftTwo(buf) == IF Len(buf) > 1 THEN Tail(Tail(buf)) ELSE <<>>

\* buffer.shift(): the chunk it returns, and what it leaves.
shiftChunk(buf) == Head(buf)

shiftRest(buf) == Tail(buf)

\* A barge-in that leaves the queue as it is.
truncateNothing(buf) == buf

\* buffer.length = 0
truncate(buf) == <<>>

\* An async listener that throws rejects its promise; nothing handles the
\* rejection, and the node:20 runtime of the Dockerfile ends the process.
unhandledRejection == "crashed"

\* JSON.parse(data) of a message that is no JSON throws a SyntaxError; the call
\* is outside handleOpenAIMessage's try block.
parseEscapes == TRUE

----------------------------------------------------------------------------
(* Bookkeeping of the teardown history *)

Cleared(c, t) ==
    [c EXCEPT !.clearInterval = @ + 1,
              !.cancelled = @ + (IF t = "active" /\ clearInterval(t) = "cleared"
                                 THEN 1 ELSE 0)]

Closed(c, rs) ==
    [c EXCEPT !.wsClose = @ + 1,
              !.closing = @ + (IF wsClose(rs).readyState # rs THEN 1 ELSE 0),
              !.threw = @ \/ wsClose(rs).threw]

Ended(c) == [c EXCEPT !.resEnd = @ + 1]

Triggered(e) == [e EXCEPT !.triggers = @ + 1]

----------------------------------------------------------------------------
Init ==
    /\ proc = "running"
    /\ resamplerDown = "null"
    /\ resamplerUp = "null"
    /\ buffer = <<>>
    /\ interval = "active"
    /\ readyState = "CONNECTING"
    /\ wsErrored = FALSE
    /\ reqEvents = {}
    /\ res = [headersSent |-> FALSE, ended |-> FALSE, statusCode |-> 200]
    /\ sent = <<>>
    /\ client = [arrived |-> <<>>, forwarded |-> <<>>]
    /\ downs = <<>>
    /\ enqueued = <<>>
    /\ written = <<>>
    /\ lateWrites = 0
    /\ cleared = {}
    /\ calls = [clearInterval |-> 0, cancelled |-> 0, wsClose |-> 0,
                closing |-> 0, resEnd |-> 0, threw |-> FALSE]
    /\ events = [audio |-> 0, speech |-> 0, errors |-> 0, failures |-> 0,
                 triggers |-> 0]
    /\ last = "init"
    /\ peers = [s \in Sessions |-> [readyState |-> "CONNECTING", down |-> 0, up |-> 0]]
    /\ part000 = [bufferedChunks |-> <<>>, isWsConnected |-> FALSE]
    /\ pcm = [a |-> <<>>, b |-> <<>>, out |-> <<>>, op |-> "none"]

\* initializeResamplers: resamplerDown = await LibSampleRate.create(...), and
\* then resamplerUp = await LibSampleRate.create(...); requests are served
\* between the two.
InitializeResamplers ==
    /\ proc = "running"
    /\ resamplerUp = "null"
    /\ IF resamplerDown = "null"
       THEN resamplerDown' = "ready" /\ resamplerUp' = resamplerUp
       ELSE resamplerUp' = "ready" /\ resamplerDown' = resamplerDown
    /\ last' = "resamplers"
    /\ UNCHANGED <<proc, buffer, interval, readyState, wsErrored, reqEvents,
                   res, sent, client, downs, enqueued, written, lateWrites,
                   cleared, calls, events>>
    /\ UNCHANGED further

\* The setInterval callback.  A res.write on an ended response is an
\* ERR_STREAM_WRITE_AFTER_END: emitted as 'error' on res, which has no
\* listener (the process ends), or dropped once res is destroyed.
Tick ==
    /\ proc = "running"
    /\ interval = "active"
    /\ last' = "tick"
    /\ IF Len(buffer) > 0
       THEN /\ buffer' = shiftRest(buffer)
            /\ written' = Append(written, shiftChunk(buffer))
            /\ IF res.ended
               THEN /\ lateWrites' = lateWrites + 1
                    /\ proc' \in {"running", "crashed"}
                    /\ res' = res
               ELSE /\ res' = [res EXCEPT !.headersSent = TRUE]
                    /\ UNCHANGED <<lateWrites, proc>>
       ELSE UNCHANGED <<buffer, written, lateWrites, proc, res>>
    /\ UNCHANGED <<resamplerDown, resamplerUp, interval, readyState, wsErrored, reqEvents,
                   sent, client, downs, enqueued, cleared, calls, events>>
    /\ UNCHANGED further

\* An open handler that leaves the session configuration out.
WsOpenNoConfig ==
    /\ proc = "running"
    /\ readyState = "CONNECTING"
    /\ readyState' = "OPEN"
    /\ last' = "open"
    /\ UNCHANGED <<client, proc, resamplerDown, resamplerUp, buffer, interval,
                   wsErrored, reqEvents, res, sent, downs, enqueued, written,
                   lateWrites, cleared, calls, events>>
    /\ UNCHANGED further

\* openaiWebSocket.on("open")
WsOpen ==
    /\ proc = "running"
    /\ readyState = "CONNECTING"
    /\ readyState' = "OPEN"
    /\ sent' = Append(sent, "session.update")
    /\ last' = "open"
    /\ UNCHANGED <<client, proc, resamplerDown, resamplerUp, buffer, interval, wsErrored, reqEvents,
                   res, downs, enqueued, written, lateWrites, cleared, calls,
                   events>>
    /\ UNCHANGED further

\* A message is delivered on an established connection, also while the
\* closing handshake the session started is in progress.
Receiving ==
    /\ proc = "running"
    /\ sent # <<>>
    /\ ~wsErrored
    /\ readyState \in {"OPEN", "CLOSING"}

\* openaiWebSocket.on("message") with data that is no JSON.
MessageMalformed ==
    /\ Receiving
    /\ last' = "malformed"
    /\ proc' = IF parseEscapes THEN unhandledRejection ELSE proc
    /\ UNCHANGED <<resamplerDown, resamplerUp, buffer, interval, readyState, wsErrored,
                   reqEvents, res, sent, client, downs, enqueued, written, lateWrites,
                   cleared, calls, events>>
    /\ UNCHANGED further

\* case "error": res.status(500).json(...).  Once the headers are sent,
\* res.json's setHeader throws ERR_HTTP_HEADERS_SENT, which the catch logs.
MessageError ==
    /\ Receiving
    /\ events.errors < MaxErrors
    /\ last' = "error"
    /\ IF res.headersSent
       THEN /\ res' = [res EXCEPT !.statusCode = 500]
            /\ events' = [events EXCEPT !.errors = @ + 1]
       ELSE /\ res' = [headersSent |-> TRUE, ended |-> TRUE, statusCode |-> 500]
            /\ events' = [events EXCEPT !.errors = @ + 1, !.failures = @ + 1]
    /\ UNCHANGED <<proc, resamplerDown, resamplerUp, buffer, interval, readyState, wsErrored,
                   reqEvents, sent, client, downs, enqueued, written, lateWrites,
                   cleared, calls>>
    /\ UNCHANGED further

\* case "response.audio.delta"; d is the byte length of the decoded delta.  A
\* null resamplerDown throws inside the try block: logged, nothing enqueued.
MessageAudioDelta(d) ==
    /\ Receiving
    /\ events.audio < MaxAudio
    /\ last' = "audio"
    /\ events' = [events EXCEPT !.audio = @ + 1]
    /\ IF resamplerDown = "null"
       THEN UNCHANGED <<buffer, downs, enqueued>>
       ELSE LET len == float32ToBuffer(resampleDown(bufferToFloat32(d)))
                frames == SplitFrom(Len(downs) + 1, len, 0)
            IN /\ downs' = Append(downs, len)
               /\ buffer' = buffer \o frames
               /\ enqueued' = enqueued \o frames
    /\ UNCHANGED <<proc, resamplerDown, resamplerUp, interval, readyState, wsErrored,
                   reqEvents, res, sent, client, written, lateWrites, cleared, calls>>
    /\ UNCHANGED further

\* case "input_audio_buffer.speech_started": buffer.length = 0
MessageSpeechStarted ==
    /\ Receiving
    /\ events.speech < MaxSpeech
    /\ last' = "speech_started"
    /\ events' = [events EXCEPT !.speech = @ + 1]
    /\ buffer' = truncate(buffer)
    /\ cleared' = cleared \cup (Range(buffer) \ Range(truncate(buffer)))
    /\ UNCHANGED <<proc, resamplerDown, resamplerUp, interval, readyState, wsErrored,
                   reqEvents, res, sent, client, downs, enqueued, written, lateWrites,
                   calls>>
    /\ UNCHANGED further

\* Every other case of the switch only logs.
MessageOther ==
    /\ Receiving
    /\ UNCHANGED vars

\* openaiWebSocket.on("close"): the remote end closed, or the closing
\* handshake or a failure completed.
WsCloseEvent ==
    /\ proc = "running"
    /\ readyState \in {"OPEN", "CLOSING"}
    /\ readyState' = "CLOSED"
    /\ interval' = clearInterval(interval)
    /\ res' = resEnd(res)
    /\ calls' = Ended(Cleared(calls, interval))
    /\ events' = Triggered(events)
    /\ last' = "ws_close"
    /\ UNCHANGED <<proc, resamplerDown, resamplerUp, buffer, wsErrored, reqEvents, sent, client,
                   downs, enqueued, written, lateWrites, cleared>>
    /\ UNCHANGED further

\* The 'error' listener without its clearInterval.
WsErrorEventNoClear ==
    /\ proc = "running"
    /\ readyState \in {"CONNECTING", "OPEN", "CLOSING"}
    /\ ~wsErrored
    /\ wsErrored' = TRUE
    /\ readyState' = "CLOSING"
    /\ res' = resEnd(res)
    /\ calls' = Ended(calls)
    /\ events' = Triggered(events)
    /\ last' = "ws_error"
    /\ UNCHANGED <<proc, resamplerDown, resamplerUp, buffer, interval, reqEvents, sent, client,
                   downs, enqueued, written, lateWrites, cleared>>
    /\ UNCHANGED further

\* openaiWebSocket.on("error"): the socket is closing when 'error' is
\* emitted, and 'close' follows.
WsErrorEvent ==
    /\ proc = "running"
    /\ readyState \in {"CONNECTING", "OPEN", "CLOSING"}
    /\ ~wsErrored
    /\ wsErrored' = TRUE
    /\ readyState' = "CLOSING"
    /\ interval' = clearInterval(interval)
    /\ res' = resEnd(res)
    /\ calls' = Ended(Cleared(calls, interval))
    /\ events' = Triggered(events)
    /\ last' = "ws_error"
    /\ UNCHANGED <<proc, resamplerDown, resamplerUp, buffer, reqEvents, sent, client, downs,
                   enqueued, written, lateWrites, cleared>>
    /\ UNCHANGED further

\* A data listener without the test of readyState.
ReqDataNoGuard(len) ==
    /\ proc = "running"
    /\ reqEvents = {}
    /\ Len(client.arrived) < MaxChunks
    /\ last' = "data"
    /\ client' = [client EXCEPT
          !.arrived = Append(@, [len |-> len, at |-> readyState]),
          !.forwarded = Append(@, [id |-> Len(client.arrived) + 1,
              bytes |-> float32ToBuffer(resampleUp(bufferToFloat32(len)))])]
    /\ sent' = Append(sent, "input_audio_buffer.append")
    /\ UNCHANGED <<proc, resamplerDown, resamplerUp, buffer, interval, readyState,
                   wsErrored, reqEvents, res, downs, enqueued, written,
                   lateWrites, cleared, calls, events>>
    /\ UNCHANGED further

\* req.on("data") with a chunk of len bytes: converted and sent while the
\* connection is OPEN, dropped otherwise.  A null resamplerUp throws in the
\* async listener, outside any try block.
ReqData(len) ==
    /\ proc = "running"
    /\ reqEvents = {}
    /\ Len(client.arrived) < MaxChunks
    /\ last' = "data"
    /\ IF readyState = "OPEN"
       THEN IF resamplerUp = "null"
            THEN /\ proc' = unhandledRejection
                 /\ client' = [client EXCEPT
                       !.arrived = Append(@, [len |-> len, at |-> readyState])]
                 /\ sent' = sent
            ELSE /\ client' = [client EXCEPT
                       !.arrived = Append(@, [len |-> len, at |-> readyState]),
                       !.forwarded = Append(@,
                          [id |-> Len(client.arrived) + 1,
                           bytes |-> float32ToBuffer(
                                        resampleUp(bufferToFloat32(len)))])]
                 /\ sent' = Append(sent, "input_audio_buffer.append")
                 /\ proc' = proc
       ELSE /\ client' = [client EXCEPT
                  !.arrived = Append(@, [len |-> len, at |-> readyState])]
            /\ UNCHANGED <<sent, proc>>
    /\ UNCHANGED <<resamplerDown, resamplerUp, buffer, interval, readyState,
                   wsErrored, reqEvents, res, downs, enqueued, written,
                   lateWrites, cleared, calls, events>>
    /\ UNCHANGED further

\* The req listeners without their clearInterval.
ReqTeardownNoClear(e) ==
    /\ proc' = IF wsClose(readyState).threw THEN unhandledRejection ELSE proc
    /\ reqEvents' = reqEvents \cup {e}
    /\ readyState' = wsClose(readyState).readyState
    /\ calls' = Closed(calls, readyState)
    /\ events' = Triggered(events)
    /\ UNCHANGED <<resamplerDown, resamplerUp, buffer, interval, wsErrored, res, sent, client,
                   downs, enqueued, written, lateWrites, cleared>>
    /\ UNCHANGED further

\* The body of req.on("end") and of req.on("error").
ReqTeardown(e) ==
    /\ proc' = IF wsClose(readyState).threw THEN unhandledRejection ELSE proc
    /\ reqEvents' = reqEvents \cup {e}
    /\ interval' = clearInterval(interval)
    /\ readyState' = wsClose(readyState).readyState
    /\ calls' = Closed(Cleared(calls, interval), readyState)
    /\ events' = Triggered(events)
    /\ UNCHANGED <<resamplerDown, resamplerUp, buffer, wsErrored, res, sent, client, downs,
                   enqueued, written, lateWrites, cleared>>
    /\ UNCHANGED further

\* req.on("end")
ReqEnd ==
    /\ proc = "running"
    /\ reqEvents = {}
    /\ last' = "req_end"
    /\ ReqTeardown("end")

\* req.on("error"): the client connection failed, before or after the
\* request body ended.
ReqError ==
    /\ proc = "running"
    /\ "error" \notin reqEvents
    /\ last' = "req_error"
    /\ ReqTeardown("error")

Next ==
    \/ InitializeResamplers
    \/ Tick
    \/ WsOpen
    \/ MessageMalformed
    \/ MessageError
    \/ \E d \in DecodedLengths : MessageAudioDelta(d)
    \/ MessageSpeechStarted
    \/ MessageOther
    \/ WsCloseEvent
    \/ WsErrorEvent
    \/ ReqEnd
    \/ ReqError

\* The remote-to-client direction of a session: every handler but
\* req.on("data"), which touches none of the queue, the timer and the response.
Spec == Init /\ [][Next]_vars

\* The client-to-remote direction of a session: every handler that reads or
\* changes the connection, the resamplers or what is sent to the remote end.
ClientNext ==
    \/ InitializeResamplers
    \/ WsOpen
    \/ \E len \in ChunkLengths : ReqData(len)
    \/ \E d \in DecodedLengths : MessageAudioDelta(d)
    \/ MessageMalformed
    \/ MessageOther
    \/ WsCloseEvent
    \/ WsErrorEvent
    \/ ReqEnd
    \/ ReqError

ClientSpec == Init /\ [][ClientNext]_vars

\* The WebSocket emits 'close' after a close was requested or an error.
FairSpec == Spec /\ WF_vars(WsCloseEvent)

----------------------------------------------------------------------------
(* Properties *)

TearingDown == events.triggers >= 1

\* C1: barge-in.  Right after an input_audio_buffer.speech_started event is
\* handled the Pending-Output Queue is empty, and no frame the event found in
\* the queue is ever passed to res.write.
C1_BargeInClearsQueue ==
    /\ last = "speech_started" => Len(buffer) = 0
    /\ \A i \in DOMAIN written : written[i] \notin cleared
    /\ \A i \in DOMAIN buffer : buffer[i] \notin cleared

\* A barge-in discarded queued frames, and the pacer has since written a frame
\* of a later audio event.
C1_Witness ==
    /\ last = "tick"
    /\ written # <<>>
    /\ \E f \in cleared : written[Len(written)].ev > f.ev

\* C2: a pacer tick writes at most one frame: the head of a non-empty queue,
\* which it removes; on an empty queue it writes nothing and leaves the queue.
C2_TickWritesHead ==
    [][last' = "tick" =>
         IF Len(buffer) > 0
         THEN /\ buffer' = Tail(buffer)
              /\ written' = Append(written, Head(buffer))
         ELSE /\ buffer' = buffer
              /\ written' = written]_vars

\* A tick found two frames queued, wrote the first and left the second.
C2_Witness ==
    /\ last = "tick"
    /\ Len(written) = 1
    /\ Len(buffer) >= 1
    /\ written[1] = enqueued[1]
    /\ buffer[1] = enqueued[2]

RECURSIVE IsSubsequence(_, _)
IsSubsequence(s, t) ==
    IF s = <<>> THEN TRUE
    ELSE IF t = <<>> THEN FALSE
    ELSE IF Head(s) = Head(t) THEN IsSubsequence(Tail(s), Tail(t))
    ELSE IsSubsequence(s, Tail(t))

\* C3: FIFO delivery.  The frames written are a subsequence of the frames
\* enqueued, in the same order, and none is written twice.
C3_WrittenIsSubsequence ==
    /\ IsSubsequence(written, enqueued)
    /\ \A i, j \in DOMAIN written : i # j => written[i] # written[j]

\* Frames were written on both sides of a barge-in that discarded a frame
\* enqueued between them.
C3_Witness ==
    /\ Len(written) >= 2
    /\ \E f \in cleared :
          /\ written[1].ev <= f.ev
          /\ f.ev < written[Len(written)].ev
\* A sequence of bytes of the downsampled buffers, byte i of the k-th buffer
\* being <<k, i>>, is written as its maximal runs [ev, from, to) of consecutive
\* bytes of one buffer; two byte sequences are equal iff their runs are.
RECURSIVE Runs(_)
Runs(fs) ==
    IF fs = <<>> THEN <<>>
    ELSE LET f == Head(fs)
             rest == Runs(Tail(fs))
         IN IF f.to <= f.from THEN rest
            ELSE IF rest # <<>> /\ rest[1].ev = f.ev /\ rest[1].from = f.to
                 THEN <<[ev |-> f.ev, from |-> f.from, to |-> rest[1].to]>>
                          \o Tail(rest)
                 ELSE <<f>> \o rest

\* The downsampled buffers, each whole: bytes 0 .. len-1 of the k-th.
Buffers(lens) == [k \in DOMAIN lens |-> [ev |-> k, from |-> 0, to |-> lens[k]]]

FrameLen(f) == f.to - f.from

RECURSIVE TotalLength(_)
TotalLength(fs) ==
    IF fs = <<>> THEN 0 ELSE FrameLen(Head(fs)) + TotalLength(Tail(fs))

\* C4: framing.  Every frame placed on the Pending-Output Queue is exactly
\* CHUNK_SIZE bytes long; a remainder shorter than a frame is held back, so
\* the frames enqueued number the whole chunks of the bytes received.
C4_FramesAreChunkSize ==
    /\ \A i \in DOMAIN enqueued : FrameLen(enqueued[i]) = CHUNK_SIZE
    /\ Len(enqueued) = TotalLength(Buffers(downs)) \div CHUNK_SIZE

\* C5: losslessness.  The frames enqueued, concatenated in enqueue order, are
\* byte for byte the downsampled buffers concatenated in arrival order.
C5_FramesReproduceInput ==
    /\ Runs(enqueued) = Runs(Buffers(downs))
    /\ TotalLength(enqueued) = TotalLength(Buffers(downs))

\* Two downsampled buffers were framed, the first of 1000 bytes, which is no
\* multiple of CHUNK_SIZE and left a frame of 40 bytes.
C5_Witness ==
    /\ Len(downs) = 2
    /\ downs[1] = 1000
    /\ downs[2] > 0
    /\ \E i \in DOMAIN enqueued : FrameLen(enqueued[i]) = 40
\* C6 as stated: once a close trigger has been handled, the pacer timer has
\* been cancelled exactly once and openaiWebSocket.close() has been invoked
\* exactly once, and no trigger raised an exception.
C6_ExactlyOneCloseInvoked ==
    TearingDown =>
        /\ calls.cancelled = 1
        /\ calls.wsClose = 1
        /\ ~calls.threw

\* C6 as amended: once a close trigger has been handled the timer has gone from
\* active to cancelled exactly once and is cancelled, the session has moved
\* the connection to CLOSING at most once, and no trigger raised an exception;
\* clearInterval has been invoked once for every trigger, close() once for
\* every client-side trigger and res.end() once for every remote-side one.
C6_TeardownIdempotent ==
    TearingDown =>
        /\ interval = "cleared"
        /\ calls.cancelled = 1
        /\ calls.closing <= 1
        /\ ~calls.threw
        /\ calls.clearInterval = events.triggers
        /\ calls.wsClose = Cardinality(reqEvents)
        /\ calls.resEnd = events.triggers - Cardinality(reqEvents)
        /\ readyState # "CONNECTING"
        /\ calls.resEnd >= 1 => res.ended

\* All four close triggers were handled in one session: close() was invoked
\* twice and clearInterval four times.
C6_Witness ==
    /\ events.triggers = 4
    /\ calls.wsClose = 2
    /\ calls.clearInterval = 4
    /\ proc = "running"

\* C7: once a close trigger has been handled, no pacer tick dequeues a frame
\* or writes to the response.
C7_NoTickAfterTeardown ==
    [][TearingDown =>
         /\ written' = written
         /\ lateWrites' = lateWrites
         /\ last' # "tick"
         /\ Len(buffer') >= Len(buffer) \/ last' = "speech_started"]_vars

\* A remote audio event arrived after the teardown had begun, and its frames
\* stay in the queue.
C7_Witness ==
    /\ TearingDown
    /\ last = "audio"
    /\ Len(buffer) >= 2
    /\ interval = "cleared"

\* C8: every remote 'error' event is surfaced to the client as a terminal
\* failure response, and the session sends at most one.
C8_ErrorSurfacedOnce ==
    /\ events.errors >= 1 => events.failures = 1
    /\ last = "error" => res.ended /\ res.statusCode = 500

\* C9: a remote message that is no JSON is skipped: the exception does not
\* escape the handler, and queue, timer and connection are as they were.
C9_MalformedSkipped ==
    [][last' = "malformed" =>
         /\ proc' = "running"
         /\ UNCHANGED <<buffer, interval, readyState, res>>]_vars

Shutdown ==
    /\ interval = "cleared"
    /\ readyState = "CLOSED"
    /\ res.ended

\* C10: after a close trigger the session eventually has its timer cancelled,
\* its remote connection closed and its response ended.
C10_ShutdownCompletes == TearingDown ~> Shutdown

----------------------------------------------------------------------------
(* C11: on a connection, session.update is sent exactly once, by the open  *)
(* handler, and it is the first message sent: nothing is sent while the    *)
(* connection is still connecting, whatever client data arrived before.    *)
Count(seq, x) == Cardinality({i \in DOMAIN seq : seq[i] = x})

C11_SessionUpdateFirst ==
    /\ readyState = "CONNECTING" => sent = <<>>
    /\ readyState = "OPEN" => Count(sent, "session.update") = 1
    /\ \A i \in DOMAIN sent : sent[i] = "session.update" <=> i = 1

\* A chunk arrived before the open event, one after it, and the second was
\* forwarded behind the session configuration.
C11_Witness ==
    /\ Len(client.arrived) = 2
    /\ client.arrived[1].at = "CONNECTING"
    /\ client.arrived[2].at = "OPEN"
    /\ sent = <<"session.update", "input_audio_buffer.append">>

----------------------------------------------------------------------------
(* Two concurrent sessions.  Each call of handleAudioStream has its own    *)
(* WebSocket, queue and timer; resamplerDown and resamplerUp are the       *)
(* module-level objects, and the process is the one both sessions run in.  *)

\* The state of the single session of Spec, which these sessions leave alone.
single == <<buffer, interval, readyState, wsErrored, reqEvents, res, sent,
            client, downs, enqueued, written, lateWrites, cleared, calls,
            events, part000, pcm>>

\* openaiWebSocket.on("open") of session s
PeerOpen(s) ==
    /\ proc = "running"
    /\ peers[s].readyState = "CONNECTING"
    /\ peers' = [peers EXCEPT ![s].readyState = "OPEN"]
    /\ last' = "open"
    /\ UNCHANGED <<proc, resamplerDown, resamplerUp, single>>

\* A response.audio.delta message of session s: resamplerDown.simple(...) on
\* the module-level object; on null the TypeError is caught in the handler.
PeerAudioDelta(s) ==
    /\ proc = "running"
    /\ peers[s].readyState = "OPEN"
    /\ peers[s].down < MaxAudio
    /\ peers' = [peers EXCEPT ![s].down = IF resamplerDown = "null" THEN @ ELSE @ + 1]
    /\ last' = "audio"
    /\ UNCHANGED <<proc, resamplerDown, resamplerUp, single>>

\* req.on("data") of session s: resamplerUp.simple(...) on the module-level
\* object; on null the TypeError escapes the async listener.
PeerData(s) ==
    /\ proc = "running"
    /\ peers[s].readyState = "OPEN"
    /\ peers[s].up < MaxChunks
    /\ IF resamplerUp = "null"
       THEN proc' = unhandledRejection /\ peers' = peers
       ELSE proc' = proc /\ peers' = [peers EXCEPT ![s].up = @ + 1]
    /\ last' = "data"
    /\ UNCHANGED <<resamplerDown, resamplerUp, single>>

\* openaiWebSocket.on("close") of session s
PeerClose(s) ==
    /\ proc = "running"
    /\ peers[s].readyState # "CLOSED"
    /\ peers' = [peers EXCEPT ![s].readyState = "CLOSED"]
    /\ last' = "close"
    /\ UNCHANGED <<proc, resamplerDown, resamplerUp, single>>

SharedNext ==
    \/ InitializeResamplers
    \/ \E s \in Sessions : PeerOpen(s)
    \/ \E s \in Sessions : PeerAudioDelta(s)
    \/ \E s \in Sessions : PeerData(s)
    \/ \E s \in Sessions : PeerClose(s)

SharedSpec == Init /\ [][SharedNext]_vars

(* C12: while two sessions are open together, no resampler object has      *)
(* served conversion calls of both.                                        *)
C12_NoSharedResampler ==
    (\A s \in Sessions : peers[s].readyState = "OPEN")
        => /\ Cardinality({s \in Sessions : peers[s].down > 0}) <= 1
           /\ Cardinality({s \in Sessions : peers[s].up > 0}) <= 1

----------------------------------------------------------------------------
(* The fixed-ratio converters of src/unnamed/part_000.  A buffer of 16-bit *)
(* PCM is the sequence of its samples.                                     *)

MaxSamples == 4    \* samples in a stream

\* Sample values: both ends of the 16-bit range, a negative and a positive.
Int16Samples == {-32768, -1, 100, 32767}

PcmBuffers == UNION {[1..n -> Int16Samples] : n \in 0..MaxSamples}

\* Math.round(num / den) for den > 0: the nearest integer, a half going up.
MathRound(num, den) == (2 * num + den) \div (2 * den)

\* A decimator that reads the sample after the one it should.
downsampleOffByOne(buf) ==
    [i \in 1..(Len(buf) \div 3) |-> buf[(i - 1) * 3 + 2]]

upsample8kHzTo24kHz(buf) ==
    LET inputSamples == Len(buf)
        ratio == 3
    IN  [k \in 1..(inputSamples * ratio) |->
            LET i == k - 1
                index1 == i \div ratio
                index2 == Min(index1 + 1, inputSamples - 1)
                sample1 == buf[index1 + 1]
                sample2 == buf[index2 + 1]
            IN  \* fraction = (i % ratio) / ratio
                MathRound(sample1 * ratio + (sample2 - sample1) * (i % ratio), ratio)]

downsample24kHzTo8kHz(buf) ==
    LET ratio == 3
        outputSamples == Len(buf) \div ratio
    IN  [k \in 1..outputSamples |-> buf[(k - 1) * ratio + 1]]

\* What the converters' callers leave alone.
unconverted == <<proc, resamplerDown, resamplerUp, buffer, interval, readyState,
                 wsErrored, reqEvents, res, sent, client, downs, enqueued,
                 written, lateWrites, cleared, calls, events, peers, part000>>

\* Successive client chunks a and b, each upsampled on arrival.
Upsample(a, b) ==
    /\ pcm.op = "none"
    /\ pcm' = [a |-> a, b |-> b, op |-> "upsample",
               out |-> upsample8kHzTo24kHz(a) \o upsample8kHzTo24kHz(b)]
    /\ last' = "upsample"
    /\ UNCHANGED unconverted

\* Successive audio deltas a and b, each downsampled on arrival.
Downsample(a, b) ==
    /\ pcm.op = "none"
    /\ pcm' = [a |-> a, b |-> b, op |-> "downsample",
               out |-> downsample24kHzTo8kHz(a) \o downsample24kHzTo8kHz(b)]
    /\ last' = "downsample"
    /\ UNCHANGED unconverted

\* A buffer upsampled and the result downsampled.
RoundTrip(a) ==
    /\ pcm.op = "none"
    /\ pcm' = [a |-> a, b |-> <<>>, op |-> "roundtrip",
               out |-> downsample24kHzTo8kHz(upsample8kHzTo24kHz(a))]
    /\ last' = "roundtrip"
    /\ UNCHANGED unconverted

\* The first k samples of a stream, and the rest of it.
Before(stream, k) == SubSeq(stream, 1, k)

After(stream, k) == SubSeq(stream, k + 1, Len(stream))

\* A stream of samples arrives split into two chunks at any place.
ConvNext ==
    \/ \E stream \in PcmBuffers : \E k \in 0..Len(stream) :
          Upsample(Before(stream, k), After(stream, k))
    \/ \E stream \in PcmBuffers : \E k \in 0..Len(stream) :
          Downsample(Before(stream, k), After(stream, k))
    \/ \E a \in PcmBuffers : RoundTrip(a)

ConvSpec == Init /\ [][ConvNext]_vars

(* C13: upsampling a buffer of n samples gives 3n samples, and             *)
(* downsampling that result gives back the n samples of the input.         *)
C13_RoundTrip ==
    /\ pcm.op = "upsample" => Len(pcm.out) = 3 * (Len(pcm.a) + Len(pcm.b))
    /\ pcm.op = "roundtrip" =>
          /\ Len(upsample8kHzTo24kHz(pcm.a)) = 3 * Len(pcm.a)
          /\ Len(pcm.out) = Len(pcm.a)
          /\ pcm.out = pcm.a

\* A round trip of three samples whose interpolated neighbours differ from
\* them.
C13_Witness ==
    /\ pcm.op = "roundtrip"
    /\ pcm.a = <<-32768, 100, -1>>
    /\ upsample8kHzTo24kHz(pcm.a)
         = <<-32768, -21812, -10856, 100, 66, 33, -1, -1, -1>>

(* C14: converting chunk a and then chunk b gives the output of one call   *)
(* on a followed by b, for both converters.                                *)
C14_ChunkContinuity ==
    /\ pcm.op = "upsample" => pcm.out = upsample8kHzTo24kHz(pcm.a \o pcm.b)
    /\ pcm.op = "downsample" => pcm.out = downsample24kHzTo8kHz(pcm.a \o pcm.b)

----------------------------------------------------------------------------
(* One session of src/unnamed/part_000 (handleAudioStream): the            *)
(* pre-connection buffer bufferedChunks, the flag isWsConnected, the       *)
(* WebSocket ws, the request and the response.  There is no queue and no   *)
(* timer: an audio delta is written to the response as it arrives.         *)

\* An exception thrown by an event listener and caught by nobody ends the
\* process.
uncaughtException == "crashed"

\* upsample8kHzTo24kHz on a buffer of len bytes, len odd: the loop runs to
\* output sample 3 * (len - 1) / 2, whose index1 is (len - 1) / 2, and
\* readInt16LE(len - 1) throws ERR_OUT_OF_RANGE.
upsampleThrows(len) == len % 2 = 1

\* Byte length of upsample8kHzTo24kHz's output for len bytes, len even.
upsampledLength(len) == (len \div 2) * 3 * 2

\* Byte length of downsample24kHzTo8kHz's output for len bytes.
downsampledLength(len) == ((len \div 2) \div 3) * 2

\* What part_000's handlers leave alone.
unused == <<resamplerDown, resamplerUp, buffer, interval, enqueued, written,
            cleared, calls, peers, pcm>>

\* bufferedChunks.forEach(...): the chunks converted and sent before the
\* first one that throws.
Replayed(chunks) ==
    LET bad == {i \in DOMAIN chunks : upsampleThrows(chunks[i].len)}
        stop == IF bad = {} THEN Len(chunks) + 1
                ELSE CHOOSE i \in bad : \A j \in bad : i <= j
    IN  SubSeq(chunks, 1, stop - 1)

\* A replay that skips a chunk it cannot convert and goes on.
Part000WsOpenSkipping ==
    /\ proc = "running"
    /\ readyState = "CONNECTING"
    /\ readyState' = "OPEN"
    /\ last' = "open"
    /\ LET good == SelectSeq(part000.bufferedChunks,
                             LAMBDA c : ~upsampleThrows(c.len))
       IN  /\ sent' = <<"session.update">>
                        \o [i \in DOMAIN good |-> "input_audio_buffer.append"]
           /\ client' = [client EXCEPT !.forwarded = @ \o
                 [i \in DOMAIN good |->
                     [id |-> good[i].id, bytes |-> upsampledLength(good[i].len)]]]
    /\ part000' = [bufferedChunks |-> <<>>, isWsConnected |-> TRUE]
    /\ UNCHANGED <<proc, wsErrored, reqEvents, res, downs, lateWrites, events, unused>>

\* ws.on("open"): session.update, isWsConnected = true, the replay, and
\* bufferedChunks.length = 0.  The replay is in no try block.
Part000WsOpen ==
    /\ proc = "running"
    /\ readyState = "CONNECTING"
    /\ readyState' = "OPEN"
    /\ last' = "open"
    /\ LET done == Replayed(part000.bufferedChunks)
           threw == Len(done) < Len(part000.bufferedChunks)
       IN  /\ sent' = <<"session.update">>
                        \o [i \in DOMAIN done |-> "input_audio_buffer.append"]
           /\ client' = [client EXCEPT !.forwarded = @ \o
                 [i \in DOMAIN done |->
                     [id |-> done[i].id, bytes |-> upsampledLength(done[i].len)]]]
           /\ part000' = [bufferedChunks |-> IF threw THEN part000.bufferedChunks
                                                      ELSE <<>>,
                          isWsConnected |-> TRUE]
           /\ proc' = IF threw THEN uncaughtException ELSE proc
    /\ UNCHANGED <<wsErrored, reqEvents, res, downs, lateWrites, events, unused>>

\* req.on("data"), all of it in a try block.  ws.send on a closing socket
\* sends nothing.
Part000ReqData(len) ==
    /\ proc = "running"
    /\ reqEvents = {}
    /\ Len(client.arrived) < MaxChunks
    /\ last' = "data"
    /\ LET id == Len(client.arrived) + 1
           chunk == [len |-> len, at |-> readyState]
       IN  IF part000.isWsConnected
           THEN IF upsampleThrows(len) \/ readyState # "OPEN"
                THEN /\ client' = [client EXCEPT !.arrived = Append(@, chunk)]
                     /\ UNCHANGED <<sent, part000>>
                ELSE /\ client' = [client EXCEPT
                           !.arrived = Append(@, chunk),
                           !.forwarded = Append(@, [id |-> id,
                                             bytes |-> upsampledLength(len)])]
                     /\ sent' = Append(sent, "input_audio_buffer.append")
                     /\ part000' = part000
           ELSE /\ client' = [client EXCEPT !.arrived = Append(@, chunk)]
                /\ part000' = [part000 EXCEPT
                      !.bufferedChunks = Append(@, [id |-> id, len |-> len])]
                /\ sent' = sent
    /\ UNCHANGED <<proc, readyState, wsErrored, reqEvents, res, downs,
                   lateWrites, events, unused>>

\* case "response.audio.delta": res.write(downsampled), with no look at the
\* state of the response.
Part000AudioDelta(d) ==
    /\ Receiving
    /\ events.audio < MaxAudio
    /\ last' = "audio"
    /\ events' = [events EXCEPT !.audio = @ + 1]
    /\ downs' = Append(downs, downsampledLength(d))
    /\ IF res.ended
       THEN /\ lateWrites' = lateWrites + 1
            /\ proc' \in {"running", "crashed"}
            /\ res' = res
       ELSE /\ res' = [res EXCEPT !.headersSent = TRUE]
            /\ UNCHANGED <<lateWrites, proc>>
    /\ UNCHANGED <<readyState, wsErrored, reqEvents, sent, client, part000, unused>>

\* ws.on("close")
Part000WsClose ==
    /\ proc = "running"
    /\ readyState # "CLOSED"
    /\ readyState' = "CLOSED"
    /\ part000' = [part000 EXCEPT !.isWsConnected = FALSE]
    /\ last' = "ws_close"
    /\ UNCHANGED <<proc, wsErrored, reqEvents, res, sent, client, downs,
                   lateWrites, events, unused>>

\* ws.on("error"); 'close' follows.
Part000WsError ==
    /\ proc = "running"
    /\ readyState # "CLOSED"
    /\ ~wsErrored
    /\ wsErrored' = TRUE
    /\ readyState' = "CLOSING"
    /\ part000' = [part000 EXCEPT !.isWsConnected = FALSE]
    /\ last' = "ws_error"
    /\ UNCHANGED <<proc, reqEvents, res, sent, client, downs, lateWrites,
                   events, unused>>

\* req.on("end"): ws.close(); res.end()
Part000ReqEnd ==
    /\ proc = "running"
    /\ reqEvents = {}
    /\ reqEvents' = {"end"}
    /\ readyState' = wsClose(readyState).readyState
    /\ res' = resEnd(res)
    /\ last' = "req_end"
    /\ UNCHANGED <<proc, wsErrored, sent, client, part000, downs, lateWrites,
                   events, unused>>

\* req.on("error"): ws.close(); res.status(500).json(...), which throws
\* into the catch once the headers are sent.
Part000ReqError ==
    /\ proc = "running"
    /\ "error" \notin reqEvents
    /\ reqEvents' = reqEvents \cup {"error"}
    /\ readyState' = wsClose(readyState).readyState
    /\ res' = IF res.headersSent
              THEN [res EXCEPT !.statusCode = 500]
              ELSE [headersSent |-> TRUE, ended |-> TRUE, statusCode |-> 500]
    /\ last' = "req_error"
    /\ UNCHANGED <<proc, wsErrored, sent, client, part000, downs, lateWrites,
                   events, unused>>

Part000Next ==
    \/ Part000WsOpen
    \/ \E len \in ChunkLengths : Part000ReqData(len)
    \/ \E d \in DecodedLengths : Part000AudioDelta(d)
    \/ Part000WsClose
    \/ Part000WsError
    \/ Part000ReqEnd
    \/ Part000ReqError

Part000Spec == Init /\ [][Part000Next]_vars

\* The ids of the chunks forwarded to the remote end, in the order sent.
ForwardedIds == [i \in DOMAIN client.forwarded |-> client.forwarded[i].id]

(* C15: no input_audio_buffer.append is sent for a client chunk of an odd  *)
(* number of bytes, the handler that processes it (on arrival or in the    *)
(* replay on open) ends without an exception escaping, and the well-formed *)
(* chunks that arrived by then on a connecting or open connection have     *)
(* been forwarded.                                                         *)
C15_OddChunkDropped ==
    /\ \A id \in Range(ForwardedIds) : client.arrived[id].len % 2 = 0
    /\ last \in {"open", "data"} => proc = "running"
    /\ (last \in {"open", "data"} /\ readyState = "OPEN") =>
          \A id \in DOMAIN client.arrived :
              (/\ client.arrived[id].len % 2 = 0
               /\ client.arrived[id].at \in {"CONNECTING", "OPEN"})
                  => id \in Range(ForwardedIds)

(* C17: once the connection has opened, the chunks forwarded are, each     *)
(* once and in arrival order, the well-formed chunks that arrived while    *)
(* the connection was connecting or open, and the open handler leaves      *)
(* bufferedChunks empty.                                                   *)
C17_ReplayInOrder ==
    /\ sent # <<>> =>
          ForwardedIds = SelectSeq([i \in DOMAIN client.arrived |-> i],
              LAMBDA id : /\ client.arrived[id].len % 2 = 0
                          /\ client.arrived[id].at \in {"CONNECTING", "OPEN"})
    /\ last = "open" => part000.bufferedChunks = <<>>

----------------------------------------------------------------------------
----------------------------------------------------------------------------
(* C18: no res.write is made on a response that has been ended, by the     *)
(* pacer tick or by a remote audio event.                                  *)
C18_NoWriteAfterEnd == lateWrites = 0

----------------------------------------------------------------------------
(* C19: in src/index.js a remote audio event is handled only once          *)
(* resamplerDown is set, and a client chunk is converted (the connection   *)
(* being OPEN) only once resamplerUp is set.                               *)
C19_ResamplersReadyBeforeUse ==
    [][/\ last' = "audio" => resamplerDown = "ready"
       /\ (last' = "data" /\ readyState = "OPEN") => resamplerUp = "ready"]_vars

----------------------------------------------------------------------------
\* The timer fires again every BUFFER_INTERVAL_MS until it is cleared.
PacedSpec == Spec /\ WF_vars(Tick)

\* Frames one session can enqueue: ceil(1000 / CHUNK_SIZE) for each delta.
MaxFrames == MaxAudio * 4

\* The session is open: no close trigger and no failure response so far, and
\* no speech-started event.
SessionOpen ==
    /\ ~TearingDown
    /\ events.failures = 0
    /\ events.speech = 0

\* Frames written to the response while it could still take them.
Delivered == Len(written) - lateWrites

(* C20: the n-th frame enqueued in an open session is eventually written   *)
(* to the client, or the session stops being open, when the pacer tick     *)
(* fires fairly.                                                           *)
C20_EnqueuedEventuallyWritten ==
    \A n \in 1..MaxFrames :
        (Len(enqueued) >= n /\ SessionOpen) ~> (Delivered >= n \/ ~SessionOpen)

====
